---- MODULE Spec2Model ----
(***************************************************************************)
(* Model of package store (src/store.go): a facade over a Firestore        *)
(* client.  The facade itself is stateless; the state is the remote        *)
(* document database the client talks to, plus the record of the last      *)
(* completed facade call (its arguments, the outcome of each client round  *)
(* trip it made, and what it returned).                                    *)
(*                                                                         *)
(* The database is changed only through this facade and calls do not       *)
(* overlap: one action is one whole method call.  A caller may keep a      *)
(* reference and use it after the document was deleted.  Whether a client  *)
(* round trip succeeds is decided by the environment and is an input of    *)
(* the call.  The client calls (Collection, Where, OrderBy, Limit, GetAll, *)
(* Add, Get, Set, Delete) behave as the Firestore Go client documents:     *)
(*   - Where(f, op, v) keeps the documents that have field f with a value  *)
(*     of v's type standing in relation op to v;                           *)
(*   - OrderBy(p, dir) keeps only the documents that have field p and      *)
(*     sorts them by p, ties by document id in the same direction;         *)
(*   - without OrderBy the documents come in ascending document id;        *)
(*   - Set(data) with no merge option creates or overwrites the document   *)
(*     so that it holds exactly data;                                      *)
(*   - Delete succeeds whether or not the document exists.                 *)
(***************************************************************************)
EXTENDS Integers, Sequences, FiniteSets, TLC

\* Number of document references the database can hand out (Add is disabled
\* once they are used up).
MaxDocs == 2

\* Collection names callers use (argument c).
Colls == {"users"}

\* Field names: two scalar fields and one array-valued field.
ScalarFields == {"name", "age"}
ArrayFields == {"tags"}

\* Payloads callers pass as d (Add) and data (Update): schemaless records.
DataSet ==
    { [name |-> 1, age |-> 2],
      [name |-> 2, age |-> 1],
      [name |-> 1, tags |-> {1}] }

\* Predicates (f, op, v) callers pass to the single- and two-field queries.
Preds == { <<"age", ">", 0>>, <<"name", "==", 1>>, <<"name", "==", 2>> }

\* Second predicates (sf, sop, sv) of the two-field queries.
Preds2 == { <<"age", ">", 1>>, <<"tags", "array-contains", 1>> }

\* Orderings (p, dir) callers pass to the ordered queries.
Orders == { <<"age", "asc">>, <<"age", "desc">> }

\* Arguments (f, v) callers pass to FindFromArray.
ArrayArgs == { <<"tags", 1>>, <<"name", 1>> }

\* The error values of the package, and the wrapped errors of Add and Update.
NoErr == "nil"
ErrNotFound == "document not found"
ErrDocsNotFound == "error getting documents snapshots"
ErrAdding == "adding document: client error"
ErrGetting == "getting document snapshot from firebase: client error"
ErrUpdating == "updating document %!s(MISSING): client error"
ErrClient == "client error"

\* Placeholders for the arguments a method does not take.
NoPred == <<"", "", 0>>
NoOrder == <<"", "">>
NoRef == [c |-> "", id |-> 0]
NoData == [f \in {} |-> 0]
NilResult == [nil |-> TRUE, docs |-> <<>>]
NoCall == [op |-> "", ref |-> NoRef, data |-> NoData]

VARIABLES
    store,    \* the database: the set of existing documents [ref, data]
    refs,     \* every document reference the database has handed out
    deleted,  \* the references a successful Delete was called on
    last,     \* the last completed facade call
    prev      \* the call before it, when that was a successful Add

vars == <<store, refs, deleted, last, prev>>

-----------------------------------------------------------------------------
(* The Firestore client, as far as the facade uses it.                     *)

\* A document snapshot as the client returns it.
Snapshot(ref, d) == [ref |-> ref, data |-> d]

Exists(S, ref) == \E x \in S : x.ref = ref

\* Whether document data d passes the filter (f, op, v).
Matches(d, f, op, v) ==
    /\ f \in DOMAIN d
    /\ IF f \in ArrayFields
          THEN op = "array-contains" /\ v \in d[f]
          ELSE \/ op = "==" /\ d[f] = v
               \/ op = ">" /\ d[f] > v

\* fs.Client.Collection(c): the query over every document of collection c.
Collection(c) ==
    [set |-> {x \in store : x.ref.c = c}, ord |-> NoOrder, lim |-> 0]

\* Where with every operator treated as equality.
WhereEqOnly(q, f, op, v) ==
    [q EXCEPT !.set = {x \in q.set : Matches(x.data, f, "==", v)}]

\* q.Where(f, op, v)
Where(q, f, op, v) ==
    [q EXCEPT !.set = {x \in q.set : Matches(x.data, f, op, v)}]

\* q.OrderBy(p, dir): only documents that have field p can be ordered by it.
OrderBy(q, p, dir) ==
    [q EXCEPT !.set = {x \in q.set : p \in DOMAIN x.data}, !.ord = <<p, dir>>]

\* q.Limit(n)
Limit(q, n) == [q EXCEPT !.lim = n]

\* Before with the direction ignored: always ascending.
BeforeAscOnly(x, y, ord) ==
    IF ord = NoOrder THEN x.ref.id <= y.ref.id
    ELSE \/ x.data[ord[1]] < y.data[ord[1]]
         \/ x.data[ord[1]] = y.data[ord[1]] /\ x.ref.id <= y.ref.id

\* Whether x comes no later than y under ordering ord.
Before(x, y, ord) ==
    IF ord = NoOrder THEN x.ref.id <= y.ref.id
    ELSE IF ord[2] = "asc"
      THEN \/ x.data[ord[1]] < y.data[ord[1]]
           \/ x.data[ord[1]] = y.data[ord[1]] /\ x.ref.id <= y.ref.id
      ELSE \/ x.data[ord[1]] > y.data[ord[1]]
           \/ x.data[ord[1]] = y.data[ord[1]] /\ x.ref.id >= y.ref.id

RECURSIVE Sorted(_, _)
Sorted(S, ord) ==
    IF S = {} THEN <<>>
    ELSE LET m == CHOOSE x \in S : \A y \in S : Before(x, y, ord)
         IN  <<m>> \o Sorted(S \ {m}, ord)

Take(s, n) == IF n > 0 /\ Len(s) > n THEN SubSeq(s, 1, n) ELSE s

\* q.Documents(ctx).GetAll(): the snapshots, or nil when the round trip fails.
DocumentsGetAll(ok, q) == IF ok THEN Take(Sorted(q.set, q.ord), q.lim) ELSE <<>>

\* Collection(c).Add(ctx, d): the store with the new document dRef.
DocAdd(S, dRef, d) == S \cup {Snapshot(dRef, d)}

\* dRef.Get(ctx): the snapshot, or nothing with an error when the round trip
\* fails or the document does not exist.
DocGet(ok, S, dRef) ==
    IF ok /\ Exists(S, dRef)
      THEN <<CHOOSE x \in S : x.ref = dRef>>
      ELSE <<>>

\* ref.Set(ctx, data): creates or overwrites the document with exactly data.
DocSet(S, ref, d) == {x \in S : x.ref # ref} \cup {Snapshot(ref, d)}

\* ref.Delete(ctx)
DocDelete(S, ref) == {x \in S : x.ref # ref}

-----------------------------------------------------------------------------
(* The facade.                                                             *)

QueryOps ==
    { "FindOneByField", "FindOneByTwoFields", "FindAllByField",
      "FindAllByFieldAndOrder", "FindAllByTwoFields", "FindFromArray",
      "GetAll", "GetAllByOrder" }

\* ReplyOne with the length test made before the error test.
ReplyOneLenFirst(ok, ds) ==
    IF Len(ds) <= 0 THEN [err |-> ErrNotFound, res |-> NilResult]
    ELSE IF ~ok THEN [err |-> ErrDocsNotFound, res |-> NilResult]
    ELSE [err |-> NoErr, res |-> [nil |-> FALSE, docs |-> <<ds[1]>>]]

\* What a "find one" method returns for the client's (ds, err).
ReplyOne(ok, ds) ==
    IF ~ok THEN [err |-> ErrDocsNotFound, res |-> NilResult]
    ELSE IF Len(ds) <= 0 THEN [err |-> ErrNotFound, res |-> NilResult]
    ELSE [err |-> NoErr, res |-> [nil |-> FALSE, docs |-> <<ds[1]>>]]

\* ReplyAll with the length test off by one (< for <=).
ReplyAllOffByOne(ok, ds) ==
    IF ~ok THEN [err |-> ErrDocsNotFound, res |-> NilResult]
    ELSE IF Len(ds) < 0 THEN [err |-> ErrNotFound, res |-> NilResult]
    ELSE [err |-> NoErr, res |-> [nil |-> FALSE, docs |-> ds]]

\* What a "find all" method returns for the client's (ds, err).
ReplyAll(ok, ds) ==
    IF ~ok THEN [err |-> ErrDocsNotFound, res |-> NilResult]
    ELSE IF Len(ds) <= 0 THEN [err |-> ErrNotFound, res |-> NilResult]
    ELSE [err |-> NoErr, res |-> [nil |-> FALSE, docs |-> ds]]

\* The record of a call: the method, its arguments, the outcome of each
\* client round trip it made (in order), and the error and result returned.
Call(op, c, p1, p2, ord, ref, data, calls, r) ==
    [op |-> op, c |-> c, p1 |-> p1, p2 |-> p2, ord |-> ord, ref |-> ref,
     data |-> data, calls |-> calls, err |-> r.err, res |-> r.res,
     again |-> FALSE]

\* The arguments of a call and the outcomes the environment gave it.
Key(call) ==
    <<call.op, call.c, call.p1, call.p2, call.ord, call.ref, call.data,
      call.calls>>

\* What prev keeps of a call.
Summary(call) ==
    IF call.op = "Add" /\ call.err = NoErr
      THEN [op |-> call.op, ref |-> call.ref, data |-> call.data]
      ELSE NoCall

\* The call returns: it becomes the last call.
Return(call) ==
    /\ last' = [call EXCEPT !.again = (Key(call) = Key(last))]
    /\ prev' = Summary(last)

\* A query method returns: nothing else changes.
ReturnQuery(call) ==
    /\ Return(call)
    /\ UNCHANGED <<store, refs, deleted>>

\* FindOneByField resuming after the snapshot the previous call returned
\* (a cursor kept between calls).
FindOneByFieldCursor ==
    \E c \in Colls, p \in Preds, ok \in BOOLEAN :
        LET q   == Where(Collection(c), p[1], p[2], p[3])
            cur == IF last.res.docs # <<>> THEN last.res.docs[1].ref.id ELSE 0
            ds  == DocumentsGetAll(ok,
                       Limit([q EXCEPT !.set = {x \in q.set : x.ref.id > cur}],
                             1))
        IN  ReturnQuery(Call("FindOneByField", c, p, NoPred, NoOrder, NoRef,
                             NoData, <<ok>>, ReplyOne(ok, ds)))

FindOneByField ==
    \E c \in Colls, p \in Preds, ok \in BOOLEAN :
        LET ds == DocumentsGetAll(ok,
                      Limit(Where(Collection(c), p[1], p[2], p[3]), 1))
        IN  ReturnQuery(Call("FindOneByField", c, p, NoPred, NoOrder, NoRef,
                             NoData, <<ok>>, ReplyOne(ok, ds)))

FindOneByTwoFields ==
    \E c \in Colls, p \in Preds, s \in Preds2, ok \in BOOLEAN :
        LET ds == DocumentsGetAll(ok,
                      Limit(Where(Where(Collection(c), p[1], p[2], p[3]),
                                  s[1], s[2], s[3]), 1))
        IN  ReturnQuery(Call("FindOneByTwoFields", c, p, s, NoOrder, NoRef,
                             NoData, <<ok>>, ReplyOne(ok, ds)))

Delete ==
    \E ref \in refs, ok \in BOOLEAN :
        /\ store' = IF ok THEN DocDelete(store, ref) ELSE store
        /\ deleted' = IF ok THEN deleted \cup {ref} ELSE deleted
        /\ UNCHANGED refs
        /\ Return(Call("Delete", ref.c, NoPred, NoPred, NoOrder, ref, NoData,
                       <<ok>>,
                       [err |-> IF ok THEN NoErr ELSE ErrClient,
                        res |-> NilResult]))

FindAllByField ==
    \E c \in Colls, p \in Preds, ok \in BOOLEAN :
        LET ds == DocumentsGetAll(ok, Where(Collection(c), p[1], p[2], p[3]))
        IN  ReturnQuery(Call("FindAllByField", c, p, NoPred, NoOrder, NoRef,
                             NoData, <<ok>>, ReplyAll(ok, ds)))

FindAllByFieldAndOrder ==
    \E c \in Colls, p \in Preds, o \in Orders, ok \in BOOLEAN :
        LET ds == DocumentsGetAll(ok,
                      OrderBy(Where(Collection(c), p[1], p[2], p[3]),
                              o[1], o[2]))
        IN  ReturnQuery(Call("FindAllByFieldAndOrder", c, p, NoPred, o, NoRef,
                             NoData, <<ok>>, ReplyAll(ok, ds)))

FindAllByTwoFields ==
    \E c \in Colls, p \in Preds, s \in Preds2, ok \in BOOLEAN :
        LET ds == DocumentsGetAll(ok,
                      Where(Where(Collection(c), p[1], p[2], p[3]),
                            s[1], s[2], s[3]))
        IN  ReturnQuery(Call("FindAllByTwoFields", c, p, s, NoOrder, NoRef,
                             NoData, <<ok>>, ReplyAll(ok, ds)))

FindFromArray ==
    \E c \in Colls, a \in ArrayArgs, ok \in BOOLEAN :
        LET p  == <<a[1], "array-contains", a[2]>>
            ds == DocumentsGetAll(ok, Where(Collection(c), p[1], p[2], p[3]))
        IN  ReturnQuery(Call("FindFromArray", c, p, NoPred, NoOrder, NoRef,
                             NoData, <<ok>>, ReplyAll(ok, ds)))

GetAll ==
    \E c \in Colls, ok \in BOOLEAN :
        LET ds == DocumentsGetAll(ok, Collection(c))
        IN  ReturnQuery(Call("GetAll", c, NoPred, NoPred, NoOrder, NoRef,
                             NoData, <<ok>>, ReplyAll(ok, ds)))

GetAllByOrder ==
    \E c \in Colls, o \in Orders, ok \in BOOLEAN :
        LET ds == DocumentsGetAll(ok, OrderBy(Collection(c), o[1], o[2]))
        IN  ReturnQuery(Call("GetAllByOrder", c, NoPred, NoPred, o, NoRef,
                             NoData, <<ok>>, ReplyAll(ok, ds)))

\* Add returning right after the insert, without reading the document back.
AddNoRead ==
    \E c \in Colls, d \in DataSet, okAdd \in BOOLEAN :
        /\ Cardinality(refs) < MaxDocs
        /\ LET dRef == [c |-> c, id |-> Cardinality(refs) + 1]
           IN  /\ store' = IF okAdd THEN DocAdd(store, dRef, d) ELSE store
               /\ refs' = IF okAdd THEN refs \cup {dRef} ELSE refs
               /\ UNCHANGED deleted
               /\ Return(Call("Add", c, NoPred, NoPred, NoOrder,
                              IF okAdd THEN dRef ELSE NoRef, d, <<okAdd>>,
                              [err |-> IF okAdd THEN NoErr ELSE ErrAdding,
                               res |-> NilResult]))

\* Add reading the document back whether or not the insert succeeded.
AddReadsAnyway ==
    \E c \in Colls, d \in DataSet, okAdd \in BOOLEAN, okGet \in BOOLEAN :
        /\ Cardinality(refs) < MaxDocs
        /\ LET dRef == [c |-> c, id |-> Cardinality(refs) + 1]
               S    == IF okAdd THEN DocAdd(store, dRef, d) ELSE store
               ds   == DocGet(okGet, S, dRef)
           IN  /\ store' = S
               /\ refs' = IF okAdd THEN refs \cup {dRef} ELSE refs
               /\ UNCHANGED deleted
               /\ Return(Call("Add", c, NoPred, NoPred, NoOrder,
                              IF okAdd THEN dRef ELSE NoRef, d,
                              <<okAdd, ds # <<>> >>,
                              IF ~okAdd
                                THEN [err |-> ErrAdding, res |-> NilResult]
                                ELSE IF ds = <<>>
                                  THEN [err |-> ErrGetting, res |-> NilResult]
                                  ELSE [err |-> NoErr,
                                        res |-> [nil |-> FALSE,
                                                 docs |-> ds]]))

\* Add makes its second round trip only when the first succeeded.  In the
\* record, ref is the local dRef (NoRef when the insert failed).
Add ==
    \E c \in Colls, d \in DataSet, okAdd \in BOOLEAN, okGet \in BOOLEAN :
        /\ Cardinality(refs) < MaxDocs
        /\ IF ~okAdd
             THEN /\ UNCHANGED <<store, refs, deleted>>
                  /\ Return(Call("Add", c, NoPred, NoPred, NoOrder, NoRef, d,
                                 <<FALSE>>,
                                 [err |-> ErrAdding, res |-> NilResult]))
             ELSE LET dRef == [c |-> c, id |-> Cardinality(refs) + 1]
                      S    == DocAdd(store, dRef, d)
                      ds   == DocGet(okGet, S, dRef)
                  IN  /\ store' = S
                      /\ refs' = refs \cup {dRef}
                      /\ UNCHANGED deleted
                      /\ Return(Call("Add", c, NoPred, NoPred, NoOrder, dRef,
                                     d, <<TRUE, ds # <<>> >>,
                                     IF ds = <<>>
                                       THEN [err |-> ErrGetting,
                                             res |-> NilResult]
                                       ELSE [err |-> NoErr,
                                             res |-> [nil |-> FALSE,
                                                      docs |-> ds]]))

Update ==
    \E df \in refs, data \in DataSet, ok \in BOOLEAN :
        /\ store' = IF ok THEN DocSet(store, df, data) ELSE store
        /\ UNCHANGED <<refs, deleted>>
        /\ Return(Call("Update", df.c, NoPred, NoPred, NoOrder, df, data,
                       <<ok>>,
                       [err |-> IF ok THEN NoErr ELSE ErrUpdating,
                        res |-> NilResult]))

Init ==
    /\ store = {}
    /\ refs = {}
    /\ deleted = {}
    /\ last = Call("", "", NoPred, NoPred, NoOrder, NoRef, NoData, <<>>,
                   [err |-> NoErr, res |-> NilResult])
    /\ prev = NoCall

Next ==
    \/ FindOneByField
    \/ FindOneByTwoFields
    \/ Delete
    \/ FindAllByField
    \/ FindAllByFieldAndOrder
    \/ FindAllByTwoFields
    \/ FindFromArray
    \/ GetAll
    \/ GetAllByOrder
    \/ Add
    \/ Update

Spec == Init /\ [][Next]_vars

-----------------------------------------------------------------------------
(* The claims.                                                             *)

FindOneOps == {"FindOneByField", "FindOneByTwoFields"}

\* The methods claim C7 names.
FieldOps ==
    { "FindOneByField", "FindOneByTwoFields", "FindAllByField",
      "FindAllByTwoFields" }

\* Whether document data d satisfies predicate p (NoPred: no predicate).
Satisfies(d, p) == p = NoPred \/ Matches(d, p[1], p[2], p[3])

\* The documents of the call's collection that satisfy its predicates.
Satisfying(call) ==
    {x \in store : /\ x.ref.c = call.c
                   /\ Satisfies(x.data, call.p1)
                   /\ Satisfies(x.data, call.p2)}

\* The documents the underlying query of the call matches: those above
\* that also have the field the query orders by.
Matched(call) ==
    {x \in Satisfying(call) :
        call.ord = NoOrder \/ call.ord[1] \in DOMAIN x.data}

\* The snapshots a call returned, as a set.
Returned(call) == {call.res.docs[i] : i \in 1..Len(call.res.docs)}

\* Whether the snapshots are ordered by field p in direction dir.
OrderedBy(docs, p, dir) ==
    \A i, j \in 1..Len(docs) :
        i < j => IF dir = "asc" THEN docs[i].data[p] <= docs[j].data[p]
                                ELSE docs[i].data[p] >= docs[j].data[p]

\* old with the fields of new merged in.
Merge(old, new) ==
    [f \in DOMAIN old \cup DOMAIN new |->
        IF f \in DOMAIN new THEN new[f] ELSE old[f]]

\* C1: when the round trip of a query method succeeds and the query matches
\* no document, the method returns ErrNotFound and a nil result; no query
\* method returns a nil error with an empty sequence or a nil snapshot.
C1_NoMatchIsNotFound ==
    last.op \in QueryOps =>
        /\ (last.calls = <<TRUE>> /\ Matched(last) = {}) =>
               (last.err = ErrNotFound /\ last.res = NilResult)
        /\ last.err = NoErr => (~last.res.nil /\ last.res.docs # <<>>)

C1_Witness ==
    /\ last.op = "GetAllByOrder"
    /\ last.calls = <<TRUE>>
    /\ store # {}
    /\ Matched(last) = {}
    /\ last.err = ErrNotFound

\* C2: when the round trip of a query method fails, the method returns
\* ErrDocsNotFound and a nil result, however many documents would match.
C2_FailureIsDocsNotFound ==
    (last.op \in QueryOps /\ last.calls = <<FALSE>>) =>
        (last.err = ErrDocsNotFound /\ last.res = NilResult)

C2_Witness ==
    /\ last.op = "FindOneByTwoFields"
    /\ last.calls = <<FALSE>>
    /\ Matched(last) # {}
    /\ last.err = ErrDocsNotFound

\* C3: after a successful Update(ref, data) on the reference of the document
\* the preceding Add inserted, the stored document is the inserted data with
\* the fields of data merged in: fields of data overwritten, the others kept.
C3_UpdateMerges ==
    ( /\ prev.op = "Add"
      /\ last.op = "Update"
      /\ last.ref = prev.ref
      /\ last.err = NoErr ) =>
        Snapshot(last.ref, Merge(prev.data, last.data)) \in store

\* C4: the snapshot a successful Add returns holds the inserted data, and a
\* FindOneByField that follows it at once, on the same collection, with an
\* equality predicate on a field value only the inserted document has,
\* returns that document with the inserted data.
C4_AddThenFind ==
    /\ (last.op = "Add" /\ last.err = NoErr) =>
           last.res = [nil |-> FALSE,
                       docs |-> <<Snapshot(last.ref, last.data)>>]
    /\ ( /\ prev.op = "Add"
         /\ last.op = "FindOneByField"
         /\ last.c = prev.ref.c
         /\ last.calls = <<TRUE>>
         /\ last.p1[2] = "=="
         /\ Matches(prev.data, last.p1[1], last.p1[2], last.p1[3])
         /\ \A x \in Satisfying(last) : x.ref = prev.ref ) =>
           /\ last.err = NoErr
           /\ last.res = [nil |-> FALSE,
                          docs |-> <<Snapshot(prev.ref, prev.data)>>]

C4_Witness ==
    /\ prev.op = "Add"
    /\ last.op = "FindOneByField"
    /\ last.calls = <<TRUE>>
    /\ last.p1[2] = "=="
    /\ Matches(prev.data, last.p1[1], last.p1[2], last.p1[3])
    /\ \A x \in Satisfying(last) : x.ref = prev.ref
    /\ Cardinality(store) = 2
    /\ last.res.docs = <<Snapshot(prev.ref, prev.data)>>

C6_AllSatisfyingOrdered ==
    (last.op = "FindAllByFieldAndOrder" /\ last.err = NoErr) =>
        /\ Returned(last) = Satisfying(last)
        /\ Len(last.res.docs) = Cardinality(Returned(last))
        /\ OrderedBy(last.res.docs, last.ord[1], last.ord[2])

\* C6 as amended: a successful FindAllByFieldAndOrder returns exactly the
\* documents of the collection that satisfy the predicate and have field p,
\* each once, ordered by field p in direction dir.
C6_AllMatchedOrdered ==
    (last.op = "FindAllByFieldAndOrder" /\ last.err = NoErr) =>
        /\ Returned(last) = Matched(last)
        /\ Len(last.res.docs) = Cardinality(Returned(last))
        /\ OrderedBy(last.res.docs, last.ord[1], last.ord[2])

\* The example: {name:a, age:30} and {name:b, age:25}, age > 0 by age
\* ascending, gives b then a.
C6_Witness ==
    /\ last.op = "FindAllByFieldAndOrder"
    /\ last.p1 = <<"age", ">", 0>>
    /\ last.ord = <<"age", "asc">>
    /\ Len(last.res.docs) = 2
    /\ last.res.docs[1].data = [name |-> 2, age |-> 1]
    /\ last.res.docs[2].data = [name |-> 1, age |-> 2]
    /\ last.res.docs[1].ref.id > last.res.docs[2].ref.id

\* C7: a single- or two-field query leaves the database as it is, and when it
\* repeats the call before it (same method, arguments and round-trip
\* outcome) it returns what that call returned.
C7_RepeatableReads ==
    [][ last'.op \in FieldOps =>
          /\ store' = store
          /\ last'.again => (last'.err = last.err /\ last'.res = last.res)
      ]_vars

C7_Witness ==
    /\ last.op \in FieldOps
    /\ last.again
    /\ last.err = NoErr
    /\ Cardinality(store) = 2

\* C8 as claimed: every call makes exactly one round trip, Add exactly two.
C8_OneRoundTripAddTwo ==
    last.op # "" => Len(last.calls) = IF last.op = "Add" THEN 2 ELSE 1

\* C8 as amended: every call makes exactly one round trip, except Add, which
\* makes two when its insert succeeds and one when its insert fails; no call
\* makes a round trip after a failed one.
C8_RoundTrips ==
    last.op # "" =>
        /\ Len(last.calls) =
               IF last.op = "Add" /\ last.calls[1] THEN 2 ELSE 1
        /\ \A i \in 1..(Len(last.calls) - 1) : last.calls[i]

C8_Witness ==
    /\ last.op = "Add"
    /\ last.calls = <<FALSE>>
    /\ last.err = ErrAdding

\* C9: a "find one" method that returns a nil error returns one snapshot, a
\* document of the named collection that satisfies the predicate(s); it
\* returns ErrNotFound only when no document of the collection does.
C9_FindOneSound ==
    last.op \in FindOneOps =>
        /\ last.err = NoErr =>
               /\ Len(last.res.docs) = 1
               /\ last.res.docs[1] \in Satisfying(last)
        /\ last.err = ErrNotFound => Satisfying(last) = {}

C9_Witness ==
    /\ last.op = "FindOneByTwoFields"
    /\ last.err = NoErr
    /\ Cardinality(store) = 2
    /\ Cardinality(Satisfying(last)) = 1

\* C10: when Add returns an error, the collection holds no document from
\* that call.
C10_FailedAddLeavesNothing ==
    (last.op = "Add" /\ last.err # NoErr) => ~Exists(store, last.ref)

====
